---- MODULE Spec2Model ----
(***************************************************************************)
(* 3D-Farm: the job / printer / spool lifecycle coordinator.               *)
(*                                                                         *)
(* The state is the content of the five tables (printers, spools,          *)
(* print_jobs, inventory_alerts, failure_events).  Every action is one     *)
(* request handled by JobService, InventoryService or an endpoint that     *)
(* writes the tables directly; it is taken from the handler's code, with   *)
(* every nested call the handler makes.                                    *)
(*                                                                         *)
(* Numbers.  Weights are whole grams and progress is a whole percentage;   *)
(* the input sets below are chosen so that every product the code divides  *)
(* (material * delta / 100, material * window / seconds) is divisible, so  *)
(* the integer quotient is the value the code computes in floating point.  *)
(* Confidences are hundredths (70 is 0.70).                                *)
(*                                                                         *)
(* Not modelled: names, descriptions, layers, timestamps other than        *)
(* whether start_time or resolved_at is set, and the weights an alert      *)
(* message prints.                                                         *)
(***************************************************************************)
EXTENDS Integers, Sequences, FiniteSets, TLC

\* ------------------------------------------------------------------ bounds
\* jobs created in the lifecycle and race specifications
MaxJobs == 2
\* jobs created in the single-job specifications
SingleJob == 1
\* rows of inventory_alerts, in the lifecycle and in the ledger specifications
MaxAlerts == 1
LedgerAlerts == 2
\* rows of failure_events
MaxEvents == 1
\* rows of failure_events where repeated frames are followed
FrameEvents == 2
\* remaining_weight_g never exceeds total_weight_g + MaxOverfill in the model
MaxOverfill == 20
\* the history variable consumed stops counting at MaxConsumed
MaxConsumed == 80

\* ------------------------------------------------------- program constants
\* the null of a nullable column (material_g, estimated_time_min)
NoneVal == -1
\* a job without a spool (spool_id None or "")
NoSpool == 0
\* settings.inventory_alert_threshold = 0.15, in percent
AlertThresholdPct == 15
\* settings.failure_detection_threshold = 0.7, in hundredths
FailureThreshold == 70
\* the trailing window of detect_failure_from_image, seconds
WindowSeconds == 30
\* estimated_time_min or 60
DefaultMinutes == 60

\* -------------------------------------------------------------- input sets
Printers == {1}
SpoolIds == {1}
JobIds == 1..MaxJobs
UnknownPrinter == Cardinality(Printers) + 1
UnknownSpool == Cardinality(SpoolIds) + 1
PrinterStatuses == {"idle", "printing", "error", "maintenance"}
SpoolTotals == {40}
MaterialInputs == {NoneVal, 40}
EstimateInputs == {1}
\* seconds between start_time and the clock complete_job reads
CompleteSeconds == 60
ProgressInputs == {-10, 50, 150}
GramsInputs == {-20, 20}
ElapsedInputs == {0, 45}
\* one frame is the four scores of detect_stringing, detect_layer_separation,
\* detect_warping, detect_blobs; <<>> is an image that cannot be loaded
FrameInputs == {<<>>, <<70, 0, 0, 0>>, <<80, 90, 90, 0>>}
FailureTypes == <<"stringing", "layer_separation", "warping", "blob">>
Requests ==
    {"create", "start", "progress", "complete", "detect", "delete", "usage",
     "resolve", "spool_active", "printer_status", "printer_idle"}

VARIABLES
    printers,        \* printers table: id -> [status, is_active]
    spools,          \* spools table: spool_id -> record
    jobs,            \* print_jobs table: job_id -> record (rows that exist)
    alerts,          \* inventory_alerts table, in id order
    failure_events,  \* failure_events table, in id order
    next_job,        \* the next fresh job code (uuid4 never repeats)
    autoflush,       \* the Session's autoflush setting (app/db/base.py)
    env,             \* the requests the callers of this specification send
    last,            \* the last request and what it returned
    consumed,        \* history: grams asked of the ledger for each job,
                     \* and whether a start of it met an occupied printer
                     \* by update_job_progress and complete_job
    txn              \* the start_job calls in progress, one per session

vars == <<printers, spools, jobs, alerts, failure_events, next_job, autoflush,
          env, last, consumed, txn>>

Max(a, b) == IF a >= b THEN a ELSE b
Min(a, b) == IF a <= b THEN a ELSE b

\* Python truthiness of a nullable number: None and 0 are false
Truthy(x) == x # NoneVal /\ x # 0

\* the tables as one value, so that nested calls compose
DB == [printers |-> printers, spools |-> spools, jobs |-> jobs,
       alerts |-> alerts, failure_events |-> failure_events]

Fail(db, e) == [db |-> db, ok |-> FALSE, err |-> e, used |-> 0]
Done(db, u) == [db |-> db, ok |-> TRUE, err |-> "", used |-> u]

\* ----------------------------------------------------------- InventoryLedger
\* an InventoryAlert row; the message is kept as the wording the caller
\* uses, without the weights it prints, and resolved_at has no default
NewAlert(s, t, msg) ==
    [spool_id |-> s, alert_type |-> t, message |-> msg,
     is_resolved |-> FALSE, resolved_at |-> NoneVal]

HasUnresolved(al, s, t) ==
    \E i \in 1..Len(al) :
        al[i].spool_id = s /\ al[i].alert_type = t /\ ~al[i].is_resolved

\* an ensure_alert that inserts without looking
ensure_alert_NoDedup(al, s, t, msg) == Append(al, NewAlert(s, t, msg))

\* an ensure_alert that rewrites the message of the unresolved alert it finds
ensure_alert_Overwrite(al, s, t, msg) ==
    IF HasUnresolved(al, s, t)
    THEN [i \in 1..Len(al) |->
             IF al[i].spool_id = s /\ al[i].alert_type = t
                    /\ ~al[i].is_resolved
             THEN [al[i] EXCEPT !.message = msg]
             ELSE al[i]]
    ELSE Append(al, NewAlert(s, t, msg))

\* InventoryService.ensure_alert
ensure_alert(al, s, t, msg) ==
    IF HasUnresolved(al, s, t) THEN al ELSE Append(al, NewAlert(s, t, msg))

\* remaining_needed = max(0.0, material_g * (1 - progress / 100))
remaining_needed(m, p) == Max(0, (m * (100 - p)) \div 100)

\* remaining_percentage <= alert_threshold
IsLow(rem, total) == rem * 100 <= AlertThresholdPct * total

\* the jobs update_spool_usage finds printing on the spool and short of material
ShortJobs(js, s, rem) ==
    {j \in DOMAIN js :
        /\ js[j].spool_id = s
        /\ js[j].status = "printing"
        /\ js[j].material_g # NoneVal
        /\ rem < remaining_needed(js[j].material_g, js[j].progress)}

\* the loop over active_jobs: one ensure_alert call per short job.  With
\* autoflush the second call's query sees the first call's pending row;
\* without it every call of the loop inserts.
ScanAlerts(al, base, s, n) ==
    IF n = 0 \/ HasUnresolved(base, s, "insufficient_material") THEN al
    ELSE IF autoflush
    THEN Append(al, NewAlert(s, "insufficient_material", "may_not_complete"))
    ELSE al \o [i \in 1..n |->
                    NewAlert(s, "insufficient_material", "may_not_complete")]

\* an update_spool_usage that takes the low flag from the weight it read
update_spool_usage_Stale(db, seen, s, g) ==
    IF s \notin DOMAIN db.spools THEN Fail(db, "spool_not_found")
    ELSE
        LET sp == db.spools[s]
            rem == Max(0, sp.remaining - g)
            low == IsLow(sp.remaining, sp.total)
            al1 == IF low /\ ~sp.is_low
                   THEN Append(db.alerts,
                               NewAlert(s, "low_inventory", "running_low"))
                   ELSE db.alerts
            al2 == ScanAlerts(al1, db.alerts, s,
                              Cardinality(ShortJobs(seen, s, rem)))
            sp2 == [sp EXCEPT !.remaining = rem,
                              !.usage = sp.total - rem,
                              !.is_low = low]
        IN  Done([db EXCEPT !.spools[s] = sp2, !.alerts = al2], g)

\* InventoryService.update_spool_usage; seen is the print_jobs table as the
\* active_jobs query finds it
update_spool_usage(db, seen, s, g) ==
    IF s \notin DOMAIN db.spools THEN Fail(db, "spool_not_found")
    ELSE
        LET sp == db.spools[s]
            rem == Max(0, sp.remaining - g)
            low == IsLow(rem, sp.total)
            al1 == IF low /\ ~sp.is_low
                   THEN Append(db.alerts,
                               NewAlert(s, "low_inventory", "running_low"))
                   ELSE db.alerts
            al2 == ScanAlerts(al1, db.alerts, s,
                              Cardinality(ShortJobs(seen, s, rem)))
            sp2 == [sp EXCEPT !.remaining = rem,
                              !.usage = sp.total - rem,
                              !.is_low = low]
        IN  Done([db EXCEPT !.spools[s] = sp2, !.alerts = al2], g)

\* --------------------------------------------------------- FailureDetector
\* a loop that stops at the first detector
BestScore_First(frame, i, conf, type) ==
    [confidence |-> frame[1], failure_type |-> FailureTypes[1]]

\* the loop of detect_failure: the first strictly greater score wins
RECURSIVE BestScore(_, _, _, _)
BestScore(frame, i, conf, type) ==
    IF i > Len(frame) THEN [confidence |-> conf, failure_type |-> type]
    ELSE IF frame[i] > conf
         THEN BestScore(frame, i + 1, frame[i], FailureTypes[i])
         ELSE BestScore(frame, i + 1, conf, type)

\* a detect_failure that flags a score equal to the threshold
detect_failure_AtThreshold(frame) ==
    IF frame = <<>>
    THEN [is_failure |-> FALSE, confidence |-> 0,
          failure_type |-> "image_load_error"]
    ELSE LET best == BestScore(frame, 1, 0, "none")
         IN  [is_failure |-> best.confidence >= FailureThreshold,
              confidence |-> best.confidence,
              failure_type |-> best.failure_type]

\* FailureDetector.detect_failure: (is_failure, confidence, failure_type)
detect_failure(frame) ==
    IF frame = <<>>
    THEN [is_failure |-> FALSE, confidence |-> 0,
          failure_type |-> "image_load_error"]
    ELSE LET best == BestScore(frame, 1, 0, "none")
         IN  [is_failure |-> best.confidence > FailureThreshold,
              confidence |-> best.confidence,
              failure_type |-> best.failure_type]

\* -------------------------------------------------------------- JobService
NewJob(p, s, m, e) ==
    [printer_id |-> p, spool_id |-> s, material_g |-> m,
     estimated_time_min |-> e, status |-> "queued", progress |-> 0,
     started |-> FALSE, actual_time_min |-> NoneVal]

\* a create_job that only asks that the printer and the spool exist
create_job_AnyStatus(db, id, p, s, m, e) ==
    IF p \notin DOMAIN db.printers THEN Fail(db, "printer_not_found")
    ELSE IF s # NoSpool /\ s \notin DOMAIN db.spools
    THEN Fail(db, "spool_not_found")
    ELSE Done([db EXCEPT !.jobs = (id :> NewJob(p, s, m, e)) @@ db.jobs], 0)

\* JobService.create_job
create_job(db, id, p, s, m, e) ==
    IF p \notin DOMAIN db.printers THEN Fail(db, "printer_not_found")
    ELSE IF db.printers[p].status # "idle" \/ ~db.printers[p].is_active
    THEN Fail(db, "printer_unavailable")
    ELSE IF s # NoSpool /\ s \notin DOMAIN db.spools
    THEN Fail(db, "spool_not_found")
    ELSE Done([db EXCEPT !.jobs = (id :> NewJob(p, s, m, e)) @@ db.jobs], 0)

\* a start_job that never reads the job's status
NotQueued_Unchecked(job) == FALSE

\* start_job, job.status != "queued"
NotQueued(job) == job.status # "queued"

\* start_job, "Validate printer still available"
PrinterOccupied(ps, p) == ps[p].status = "printing"

\* a spool query that forgets the is_active filter
SpoolUsable_AnyState(sps, s) == s \in DOMAIN sps

\* start_job, the spool query: Spool.spool_id == job.spool_id, is_active == True
SpoolUsable(sps, s) == s \in DOMAIN sps /\ sps[s].is_active

\* start_job, the material check
Insufficient(sps, s, m) == m # NoneVal /\ sps[s].remaining < m

\* a start_job that never looks for the spool's printing job
SpoolInUse_NoScan(js, s) == FALSE

\* start_job, the in_use query: a printing job on the same spool
SpoolInUse(js, s) ==
    \E k \in DOMAIN js : js[k].spool_id = s /\ js[k].status = "printing"

\* start_job, from "Update job status" to the commit
CommitStart(db, j) ==
    LET job == db.jobs[j]
        p == job.printer_id
        s == job.spool_id
        al == IF /\ s # NoSpool /\ Truthy(job.material_g)
                 /\ s \in DOMAIN db.spools
                 /\ db.spools[s].remaining < job.material_g
              THEN ensure_alert(db.alerts, s, "insufficient_material",
                                "has_requires")
              ELSE db.alerts
    IN  [db EXCEPT !.jobs[j].status = "printing",
                   !.jobs[j].started = TRUE,
                   !.printers[p].status = "printing",
                   !.alerts = al]

\* JobService.start_job
start_job(db, j) ==
    IF j \notin DOMAIN db.jobs THEN Fail(db, "job_not_found")
    ELSE LET job == db.jobs[j]
             p == job.printer_id
             s == job.spool_id
         IN
    IF NotQueued(job) THEN Fail(db, "not_queued")
    ELSE IF p \notin DOMAIN db.printers THEN Fail(db, "printer_not_found")
    ELSE IF PrinterOccupied(db.printers, p) THEN Fail(db, "printer_occupied")
    ELSE IF s # NoSpool /\ ~SpoolUsable(db.spools, s)
    THEN Fail(db, "spool_inactive")
    ELSE IF s # NoSpool /\ Insufficient(db.spools, s, job.material_g)
    THEN Fail([db EXCEPT !.alerts =
                   ensure_alert(db.alerts, s, "insufficient_material",
                                "has_requires")],
              "insufficient_material")
    ELSE IF s # NoSpool /\ SpoolInUse(db.jobs, s)
    THEN Fail(db, "spool_in_use")
    ELSE Done(CommitStart(db, j), 0)

\* an update_job_progress that stores what it is given
Clamp_Unclamped(x) == x

\* new_progress = max(0.0, min(100.0, progress_percentage))
Clamp(x) == Max(0, Min(100, x))

\* an update_job_progress that hands material back when progress falls
update_job_progress_Refund(db, j, x) ==
    IF j \notin DOMAIN db.jobs THEN Fail(db, "job_not_found")
    ELSE
        LET job == db.jobs[j]
            s == job.spool_id
            m == job.material_g
            new == Clamp(x)
            delta == new - job.progress
            uses == delta # 0 /\ s # NoSpool /\ Truthy(m)
            g == IF delta >= 0 THEN (m * delta) \div 100
                 ELSE 0 - ((m * (0 - delta)) \div 100)
            r1 == update_spool_usage(db, db.jobs, s, g)
            d1 == r1.db
            d2 == IF /\ s \in DOMAIN d1.spools
                     /\ d1.spools[s].remaining < remaining_needed(m, new)
                  THEN [d1 EXCEPT !.alerts =
                            ensure_alert(d1.alerts, s, "insufficient_material",
                                         "may_not_complete")]
                  ELSE d1
            d3 == IF uses THEN d2 ELSE db
        IN  Done([d3 EXCEPT !.jobs[j].progress = new],
                 IF uses THEN g ELSE 0)

\* an update_job_progress that charges the whole reported progress each time
update_job_progress_FromZero(db, j, x) ==
    IF j \notin DOMAIN db.jobs THEN Fail(db, "job_not_found")
    ELSE
        LET job == db.jobs[j]
            s == job.spool_id
            m == job.material_g
            new == Clamp(x)
            delta == new - job.progress
            uses == delta > 0 /\ s # NoSpool /\ Truthy(m)
            g == (m * new) \div 100
            r1 == update_spool_usage(db, db.jobs, s, g)
            d1 == r1.db
            d2 == IF /\ s \in DOMAIN d1.spools
                     /\ d1.spools[s].remaining < remaining_needed(m, new)
                  THEN [d1 EXCEPT !.alerts =
                            ensure_alert(d1.alerts, s, "insufficient_material",
                                         "may_not_complete")]
                  ELSE d1
            d3 == IF uses THEN d2 ELSE db
        IN  Done([d3 EXCEPT !.jobs[j].progress = new],
                 IF uses THEN g ELSE 0)

\* JobService.update_job_progress
update_job_progress(db, j, x) ==
    IF j \notin DOMAIN db.jobs THEN Fail(db, "job_not_found")
    ELSE
        LET job == db.jobs[j]
            s == job.spool_id
            m == job.material_g
            new == Clamp(x)
            delta == new - job.progress
            uses == delta > 0 /\ s # NoSpool /\ Truthy(m)
            g == (m * delta) \div 100
            r1 == update_spool_usage(db, db.jobs, s, g)
            d1 == r1.db
            d2 == IF /\ s \in DOMAIN d1.spools
                     /\ d1.spools[s].remaining < remaining_needed(m, new)
                  THEN [d1 EXCEPT !.alerts =
                            ensure_alert(d1.alerts, s, "insufficient_material",
                                         "may_not_complete")]
                  ELSE d1
            d3 == IF uses THEN d2 ELSE db
        IN  Done([d3 EXCEPT !.jobs[j].progress = new],
                 IF uses THEN g ELSE 0)

\* complete_job, "Calculate actual time": int(duration.total_seconds() / 60)
actual_time(secs) == secs \div 60

\* a complete_job that deducts the remainder whatever the outcome
complete_job_AlwaysDeducts(db, j, success) ==
    IF j \notin DOMAIN db.jobs THEN Fail(db, "job_not_found")
    ELSE
        LET job == db.jobs[j]
            p == job.printer_id
            s == job.spool_id
            m == job.material_g
            d1 == [db EXCEPT
                     !.jobs[j].status =
                         IF success THEN "completed" ELSE "failed",
                     !.jobs[j].actual_time_min =
                         IF job.started THEN actual_time(env.duration)
                         ELSE @,
                     !.printers =
                         IF p \in DOMAIN db.printers
                         THEN [db.printers EXCEPT ![p].status = "idle"]
                         ELSE db.printers]
            \* used_so_far = progress / 100 * material_g
            rest == Max(0, m - (job.progress * m) \div 100)
            uses == s # NoSpool /\ Truthy(m) /\ rest > 0
            \* the pending status is flushed before the queries of
            \* update_spool_usage only when the session autoflushes
            seen == IF autoflush THEN d1.jobs ELSE db.jobs
            d2 == IF uses THEN update_spool_usage(d1, seen, s, rest).db
                  ELSE d1
        IN  Done(d2, IF uses THEN rest ELSE 0)

\* a complete_job that leaves the printer as it is
complete_job_KeepsPrinter(db, j, success) ==
    IF j \notin DOMAIN db.jobs THEN Fail(db, "job_not_found")
    ELSE
        LET job == db.jobs[j]
            p == job.printer_id
            s == job.spool_id
            m == job.material_g
            d1 == [db EXCEPT
                     !.jobs[j].status =
                         IF success THEN "completed" ELSE "failed",
                     !.jobs[j].actual_time_min =
                         IF job.started THEN actual_time(env.duration)
                         ELSE @,
                     !.printers = db.printers]
            \* used_so_far = progress / 100 * material_g
            rest == Max(0, m - (job.progress * m) \div 100)
            uses == success /\ s # NoSpool /\ Truthy(m) /\ rest > 0
            \* the pending status is flushed before the queries of
            \* update_spool_usage only when the session autoflushes
            seen == IF autoflush THEN d1.jobs ELSE db.jobs
            d2 == IF uses THEN update_spool_usage(d1, seen, s, rest).db
                  ELSE d1
        IN  Done(d2, IF uses THEN rest ELSE 0)

\* JobService.complete_job
complete_job(db, j, success) ==
    IF j \notin DOMAIN db.jobs THEN Fail(db, "job_not_found")
    ELSE
        LET job == db.jobs[j]
            p == job.printer_id
            s == job.spool_id
            m == job.material_g
            d1 == [db EXCEPT
                     !.jobs[j].status =
                         IF success THEN "completed" ELSE "failed",
                     !.jobs[j].actual_time_min =
                         IF job.started THEN actual_time(env.duration)
                         ELSE @,
                     !.printers =
                         IF p \in DOMAIN db.printers
                         THEN [db.printers EXCEPT ![p].status = "idle"]
                         ELSE db.printers]
            \* used_so_far = progress / 100 * material_g
            rest == Max(0, m - (job.progress * m) \div 100)
            uses == success /\ s # NoSpool /\ Truthy(m) /\ rest > 0
            \* the pending status is flushed before the queries of
            \* update_spool_usage only when the session autoflushes
            seen == IF autoflush THEN d1.jobs ELSE db.jobs
            d2 == IF uses THEN update_spool_usage(d1, seen, s, rest).db
                  ELSE d1
        IN  Done(d2, IF uses THEN rest ELSE 0)

\* a used_g that charges the whole time since the start
window_usage_Uncapped(job, elapsed) ==
    LET total_minutes == IF Truthy(job.estimated_time_min)
                         THEN job.estimated_time_min ELSE DefaultMinutes
        seconds_total == Max(total_minutes * 60, 1)
        elapsed_s == IF job.started THEN elapsed ELSE WindowSeconds
    IN  (job.material_g * Max(elapsed_s, 0)) \div seconds_total

\* used_g of detect_failure_from_image
window_usage(job, elapsed) ==
    LET total_minutes == IF Truthy(job.estimated_time_min)
                         THEN job.estimated_time_min ELSE DefaultMinutes
        seconds_total == Max(total_minutes * 60, 1)
        elapsed_s == IF job.started THEN elapsed ELSE WindowSeconds
        window_s == Min(WindowSeconds, Max(elapsed_s, 0))
    IN  (job.material_g * window_s) \div seconds_total

\* a detect_failure_from_image that leaves the spool active
detect_failure_from_image_NoLock(db, j, frame, elapsed) ==
    IF j \notin DOMAIN db.jobs THEN Fail(db, "job_not_found")
    ELSE
        LET job == db.jobs[j]
            p == job.printer_id
            s == job.spool_id
            det == detect_failure(frame)
            used_g == window_usage(job, elapsed)
            d1 == IF s # NoSpool /\ Truthy(job.material_g) /\ used_g > 0
                  THEN update_spool_usage(db, db.jobs, s, used_g).db
                  ELSE db
            ev == [job_id |-> j, failure_type |-> det.failure_type,
                   confidence_score |-> det.confidence]
            d2 == [d1 EXCEPT
                     !.failure_events = Append(d1.failure_events, ev),
                     !.jobs[j].status = "failed",
                     !.printers =
                         IF p \in DOMAIN d1.printers
                         THEN [d1.printers EXCEPT ![p].status = "error"]
                         ELSE d1.printers]
        IN  IF det.is_failure THEN Done(d2, 0) ELSE Fail(db, "")

\* JobService.detect_failure_from_image
detect_failure_from_image(db, j, frame, elapsed) ==
    IF j \notin DOMAIN db.jobs THEN Fail(db, "job_not_found")
    ELSE
        LET job == db.jobs[j]
            p == job.printer_id
            s == job.spool_id
            det == detect_failure(frame)
            used_g == window_usage(job, elapsed)
            d1 == IF s # NoSpool /\ Truthy(job.material_g) /\ used_g > 0
                  THEN update_spool_usage(db, db.jobs, s, used_g).db
                  ELSE db
            ev == [job_id |-> j, failure_type |-> det.failure_type,
                   confidence_score |-> det.confidence]
            d2 == [d1 EXCEPT
                     !.failure_events = Append(d1.failure_events, ev),
                     !.jobs[j].status = "failed",
                     !.printers =
                         IF p \in DOMAIN d1.printers
                         THEN [d1.printers EXCEPT ![p].status = "error"]
                         ELSE d1.printers,
                     !.spools =
                         IF s # NoSpool /\ s \in DOMAIN d1.spools
                         THEN [d1.spools EXCEPT ![s].is_active = FALSE]
                         ELSE d1.spools]
        IN  IF det.is_failure THEN Done(d2, 0) ELSE Fail(db, "")

\* a delete_job that deletes whatever the status
delete_job_AnyStatus(db, j) ==
    IF j \notin DOMAIN db.jobs THEN Fail(db, "job_not_found")
    ELSE Done([db EXCEPT !.jobs =
                   [k \in DOMAIN db.jobs \ {j} |-> db.jobs[k]]], 0)

\* JobService.delete_job
delete_job(db, j) ==
    IF j \notin DOMAIN db.jobs THEN Fail(db, "job_not_found")
    ELSE IF db.jobs[j].status # "queued" THEN Fail(db, "not_queued")
    ELSE Done([db EXCEPT !.jobs =
                   [k \in DOMAIN db.jobs \ {j} |-> db.jobs[k]]], 0)

\* ---------------------------------------------------------------- endpoints
\* GET /jobs/{id}: JobService.get_job_by_id, 404 when there is no such row
get_job(db, j) ==
    IF j \in DOMAIN db.jobs THEN Done(db, 0) ELSE Fail(db, "job_not_found")

\* PUT /printers/{id}/status
update_printer_status(db, p, st) ==
    IF p \notin DOMAIN db.printers THEN Fail(db, "printer_not_found")
    ELSE Done([db EXCEPT !.printers[p].status = st], 0)

\* POST /printers/{id}/activate
activate_printer(db, p) ==
    IF p \notin DOMAIN db.printers THEN Fail(db, "printer_not_found")
    ELSE Done([db EXCEPT !.printers[p].status = "idle"], 0)

\* POST /inventory/spools/{id}/activate and /deactivate
set_spool_active_Resolving(db, s, b) ==
    IF s \notin DOMAIN db.spools THEN Fail(db, "spool_not_found")
    ELSE Done([db EXCEPT !.spools[s].is_active = b,
                         !.alerts = [i \in 1..Len(db.alerts) |->
                                        [db.alerts[i] EXCEPT
                                             !.is_resolved = TRUE]]], 0)

set_spool_active(db, s, b) ==
    IF s \notin DOMAIN db.spools THEN Fail(db, "spool_not_found")
    ELSE Done([db EXCEPT !.spools[s].is_active = b], 0)

\* InventoryService.resolve_alert
resolve_alert(db, i) ==
    IF i \notin 1..Len(db.alerts) THEN Fail(db, "alert_not_found")
    ELSE Done([db EXCEPT !.alerts[i].is_resolved = TRUE], 0)

\* ------------------------------------------------------------------- state
\* InventoryService.create_spool: a new spool is full
NewSpool(total) ==
    [total |-> total, remaining |-> total, usage |-> 0, is_low |-> FALSE,
     is_active |-> TRUE]

\* the Printer column defaults
NewPrinter == [status |-> "idle", is_active |-> TRUE]

\* the argument kept for a request that has none worth keeping
NoArg == <<>>

NoRequest == [op |-> "none", job |-> 0, arg |-> NoArg, ok |-> TRUE, err |-> ""]

Sessions == {1, 2}
IdleSession ==
    [pc |-> "idle", job |-> 0, ok |-> FALSE, err |-> "", existing |-> FALSE]

\* what every specification starts from: the printers and spools exist,
\* no job has been created
Start(e) ==
    /\ env = e
    /\ printers = [p \in Printers |-> NewPrinter]
    /\ spools \in [SpoolIds -> {NewSpool(w) : w \in e.totals}]
    /\ jobs = <<>>
    /\ alerts = <<>>
    /\ failure_events = <<>>
    /\ next_job = 1
    /\ autoflush \in BOOLEAN
    /\ last = NoRequest
    /\ consumed = [j \in JobIds |->
                       [grams |-> 0, clean |-> FALSE, refused |-> FALSE]]
    /\ txn = [w \in Sessions |-> IdleSession]

\* the model's bounds on the tables
WithinBounds(db) ==
    /\ Len(db.alerts) <= env.max_alerts
    /\ Len(db.failure_events) <= env.max_events
    /\ \A s \in DOMAIN db.spools :
           db.spools[s].remaining <= db.spools[s].total + MaxOverfill

\* the tables after a request, and what the request was given and returned
CommitArg(op, j, a, res) ==
    /\ WithinBounds(res.db)
    /\ printers' = res.db.printers
    /\ spools' = res.db.spools
    /\ jobs' = res.db.jobs
    /\ alerts' = res.db.alerts
    /\ failure_events' = res.db.failure_events
    /\ last' = IF op \in env.results
               THEN [op |-> op, job |-> j, arg |-> a,
                     ok |-> res.ok, err |-> res.err]
               ELSE NoRequest
    /\ UNCHANGED <<autoflush, env, txn>>

Commit(op, j, res) == CommitArg(op, j, NoArg, res)

\* the success query parameter of POST /jobs/{id}/complete, as recorded
SuccessArg(success) == IF success THEN <<1>> ELSE <<0>>

Count(j, g) ==
    IF env.history
    THEN [consumed EXCEPT ![j].grams = Min(MaxConsumed, @ + g)]
    ELSE consumed

\* ----------------------------------------------------------------- actions
CreateJob ==
    \E p \in Printers \cup {UnknownPrinter},
       s \in SpoolIds \cup {NoSpool, UnknownSpool},
       m \in env.materials, e \in env.estimates :
        /\ next_job <= env.max_jobs
        /\ LET res == create_job(DB, next_job, p, s, m, e)
           IN  /\ Commit("create", IF res.ok THEN next_job ELSE 0, res)
               /\ next_job' = IF res.ok THEN next_job + 1 ELSE next_job
        /\ UNCHANGED consumed

StartJob ==
    \E j \in 1..env.max_jobs :
        LET res == start_job(DB, j)
        IN  /\ Commit("start", j, res)
            /\ consumed' =
                   IF res.ok /\ env.history
                   THEN [consumed EXCEPT ![j].clean =
                            jobs[j].progress = 0 /\ consumed[j].grams = 0]
                   ELSE IF res.err = "printer_occupied" /\ env.retries
                   THEN [consumed EXCEPT ![j].refused = TRUE]
                   ELSE consumed
            /\ UNCHANGED next_job

UpdateProgress ==
    \E j \in 1..env.max_jobs, x \in env.progress :
        LET res == update_job_progress(DB, j, x)
        IN  /\ CommitArg("progress", j, <<x>>, res)
            /\ consumed' = Count(j, res.used)
            /\ UNCHANGED next_job

CompleteJob ==
    \E j \in 1..env.max_jobs, success \in BOOLEAN :
        LET res == complete_job(DB, j, success)
        IN  /\ CommitArg("complete", j, SuccessArg(success), res)
            /\ consumed' = Count(j, res.used)
            /\ UNCHANGED next_job

DetectFailure ==
    \E j \in 1..env.max_jobs, frame \in env.frames, elapsed \in env.elapsed :
        /\ CommitArg("detect", j, frame,
                     detect_failure_from_image(DB, j, frame, elapsed))
        /\ UNCHANGED <<next_job, consumed>>

DeleteJob ==
    \E j \in 1..env.max_jobs :
        /\ Commit("delete", j, delete_job(DB, j))
        /\ UNCHANGED <<next_job, consumed>>

SpoolUsage ==
    \E s \in SpoolIds \cup {UnknownSpool}, g \in env.grams :
        /\ Commit("usage", 0, update_spool_usage(DB, jobs, s, g))
        /\ UNCHANGED <<next_job, consumed>>

ResolveAlert ==
    \E i \in 1..env.max_alerts :
        /\ CommitArg("resolve", 0, <<i>>, resolve_alert(DB, i))
        /\ UNCHANGED <<next_job, consumed>>

SetSpoolActive ==
    \E s \in SpoolIds, b \in BOOLEAN :
        /\ Commit("spool_active", 0, set_spool_active(DB, s, b))
        /\ UNCHANGED <<next_job, consumed>>

SetPrinterStatus ==
    \E p \in Printers, st \in PrinterStatuses :
        /\ Commit("printer_status", 0, update_printer_status(DB, p, st))
        /\ UNCHANGED <<next_job, consumed>>

ActivatePrinter ==
    \E p \in Printers :
        /\ Commit("printer_idle", 0, activate_printer(DB, p))
        /\ UNCHANGED <<next_job, consumed>>

Next ==
    \/ CreateJob
    \/ StartJob
    \/ UpdateProgress
    \/ CompleteJob
    \/ DetectFailure
    \/ DeleteJob
    \/ SpoolUsage
    \/ ResolveAlert
    \/ SetSpoolActive
    \/ SetPrinterStatus
    \/ ActivatePrinter

\* ---------------------------------------------------------- specifications
\* Spec: the job lifecycle with two jobs; what start_job returned is kept
LifecycleEnv ==
    [max_jobs |-> MaxJobs, max_alerts |-> MaxAlerts,
     max_events |-> MaxEvents,
     totals |-> SpoolTotals,
     estimates |-> EstimateInputs,
     duration |-> CompleteSeconds,
     materials |-> {40}, progress |-> {50}, grams |-> {20},
     frames |-> {<<70, 0, 0, 0>>, <<80, 90, 90, 0>>}, elapsed |-> {45},
     results |-> {"start"}, history |-> FALSE, retries |-> FALSE]

Init == Start(LifecycleEnv)

Spec == Init /\ [][Next]_vars

\* SpecOne: one job, every input, what every request returned is kept
OneEnv ==
    [max_jobs |-> SingleJob, max_alerts |-> MaxAlerts,
     max_events |-> MaxEvents,
     totals |-> SpoolTotals,
     estimates |-> EstimateInputs,
     duration |-> CompleteSeconds,
     materials |-> MaterialInputs, progress |-> ProgressInputs,
     grams |-> {20}, frames |-> FrameInputs, elapsed |-> ElapsedInputs,
     results |-> Requests, history |-> FALSE, retries |-> FALSE]

InitOne == Start(OneEnv)

SpecOne == InitOne /\ [][Next]_vars

\* SpecLedger: one job, the material ledger with its alerts and the history
\* of what was consumed for the job
LedgerEnv ==
    [max_jobs |-> SingleJob, max_alerts |-> LedgerAlerts,
     max_events |-> MaxEvents,
     totals |-> SpoolTotals,
     estimates |-> EstimateInputs,
     duration |-> CompleteSeconds,
     materials |-> {40}, progress |-> ProgressInputs,
     grams |-> GramsInputs, frames |-> FrameInputs, elapsed |-> ElapsedInputs,
     results |-> {}, history |-> TRUE, retries |-> FALSE]

InitLedger == Start(LedgerEnv)

SpecLedger == InitLedger /\ [][Next]_vars

\* SpecScenario: one job of 900 g on a spool of 1000 g, progress reported in
\* halves, what every request returned is kept
ScenarioTotals == {1000}
ScenarioMaterials == {900}
ScenarioProgress == {50, 100}

ScenarioEnv ==
    [max_jobs |-> SingleJob, max_alerts |-> LedgerAlerts,
     max_events |-> MaxEvents,
     totals |-> ScenarioTotals,
     estimates |-> EstimateInputs,
     duration |-> CompleteSeconds,
     materials |-> ScenarioMaterials, progress |-> ScenarioProgress,
     grams |-> {450}, frames |-> {<<80, 90, 90, 0>>}, elapsed |-> {0},
     results |-> Requests, history |-> FALSE, retries |-> FALSE]

InitScenario == Start(ScenarioEnv)

SpecScenario == InitScenario /\ [][Next]_vars

\* SpecRetry: one job, room for a second alert, what start_job returned is
\* kept
RetryEnv ==
    [max_jobs |-> SingleJob, max_alerts |-> LedgerAlerts,
     max_events |-> MaxEvents,
     totals |-> SpoolTotals,
     estimates |-> EstimateInputs,
     duration |-> CompleteSeconds,
     materials |-> {40}, progress |-> {50}, grams |-> {20},
     frames |-> {<<80, 90, 90, 0>>}, elapsed |-> {45},
     results |-> {"start"}, history |-> FALSE, retries |-> FALSE]

InitRetry == Start(RetryEnv)

SpecRetry == InitRetry /\ [][Next]_vars

\* SpecProgress: one job, every progress value, what update_job_progress
\* returned is kept together with the history of what the job consumed
ProgressEnv ==
    [max_jobs |-> SingleJob, max_alerts |-> LedgerAlerts,
     max_events |-> MaxEvents,
     totals |-> SpoolTotals,
     estimates |-> EstimateInputs,
     duration |-> CompleteSeconds,
     materials |-> {20, 40}, progress |-> ProgressInputs, grams |-> {20},
     frames |-> {<<80, 90, 90, 0>>}, elapsed |-> {45},
     results |-> {"progress"}, history |-> TRUE, retries |-> FALSE]

InitProgress == Start(ProgressEnv)

SpecProgress == InitProgress /\ [][Next]_vars

\* SpecFrames: one job and the frames submitted for it, room for a second
\* failure event, what detect_failure_from_image returned is kept
FramesEnv ==
    [max_jobs |-> SingleJob, max_alerts |-> MaxAlerts,
     max_events |-> FrameEvents,
     totals |-> SpoolTotals,
     estimates |-> EstimateInputs,
     duration |-> CompleteSeconds,
     materials |-> {40}, progress |-> {50}, grams |-> {20},
     frames |-> {<<70, 0, 0, 0>>, <<80, 90, 90, 0>>}, elapsed |-> {45},
     results |-> {"detect"}, history |-> FALSE, retries |-> FALSE]

InitFrames == Start(FramesEnv)

SpecFrames == InitFrames /\ [][Next]_vars

\* SpecQueue: two jobs queued on one printer; what start_job and
\* complete_job returned is kept, and the history notes the jobs whose
\* start met an occupied printer
QueueEnv ==
    [max_jobs |-> MaxJobs, max_alerts |-> MaxAlerts,
     max_events |-> MaxEvents,
     totals |-> SpoolTotals,
     estimates |-> EstimateInputs,
     duration |-> CompleteSeconds,
     materials |-> {NoneVal}, progress |-> {50}, grams |-> {0},
     frames |-> {<<80, 90, 90, 0>>}, elapsed |-> {45},
     results |-> {"start", "complete"}, history |-> FALSE,
     retries |-> TRUE]

InitQueue == Start(QueueEnv)

SpecQueue == InitQueue /\ [][Next]_vars

\* SpecWindow: one job with or without an estimate on a 300 g spool; every
\* behaviour has one clock reading for its detections, and what
\* detect_failure_from_image returned is kept
WindowTotals == {300}
WindowMaterials == {240}
WindowEstimates == {NoneVal, 1}
WindowElapsed == {0, 15, 45}

WindowEnv(el) ==
    [max_jobs |-> SingleJob, max_alerts |-> LedgerAlerts,
     max_events |-> FrameEvents,
     totals |-> WindowTotals,
     estimates |-> WindowEstimates,
     duration |-> CompleteSeconds,
     materials |-> WindowMaterials, progress |-> {50}, grams |-> {120},
     frames |-> {<<0, 0, 0, 0>>, <<80, 90, 90, 0>>}, elapsed |-> {el},
     results |-> {"detect"}, history |-> FALSE, retries |-> FALSE]

InitWindow == \E el \in WindowElapsed : Start(WindowEnv(el))

SpecWindow == InitWindow /\ [][Next]_vars

\* SpecClock: one job; every behaviour has one time between start_job and
\* complete_job, and what complete_job returned is kept
ClockDurations == {60, 90, 100}

ClockEnv(secs) ==
    [max_jobs |-> SingleJob, max_alerts |-> MaxAlerts,
     max_events |-> MaxEvents,
     totals |-> SpoolTotals,
     estimates |-> EstimateInputs,
     duration |-> secs,
     materials |-> MaterialInputs, progress |-> {50}, grams |-> {20},
     frames |-> {<<80, 90, 90, 0>>}, elapsed |-> {45},
     results |-> {"complete"}, history |-> FALSE, retries |-> FALSE]

InitClock == \E secs \in ClockDurations : Start(ClockEnv(secs))

SpecClock == InitClock /\ [][Next]_vars

\* SpecFault: the requests of one job, and the same requests with a query
\* or a commit of the session raising.  The handler's except branch rolls
\* the session back and returns False: the tables are then as the last
\* commit left them, and update_spool_usage commits on its own in the
\* middle of update_job_progress and complete_job.
FaultPoints == {"query", "commit"}

\* start_job raising: nothing was committed before its own commit
start_job_raising(db, j, at) == Fail(db, "internal_error")

\* update_job_progress raising at self._get_job or at its final commit
update_job_progress_raising(db, j, x, at) ==
    IF at = "query" \/ j \notin DOMAIN db.jobs
    THEN Fail(db, "internal_error")
    ELSE
        LET job == db.jobs[j]
            s == job.spool_id
            m == job.material_g
            delta == Clamp(x) - job.progress
            uses == delta > 0 /\ s # NoSpool /\ Truthy(m)
            g == (m * delta) \div 100
        IN  Fail(IF uses THEN update_spool_usage(db, db.jobs, s, g).db
                 ELSE db,
                 "internal_error")

\* complete_job raising at self._get_job or at its final commit; the commit
\* inside update_spool_usage has then stored the status and the printer too
complete_job_raising(db, j, success, at) ==
    IF at = "query" \/ j \notin DOMAIN db.jobs
    THEN Fail(db, "internal_error")
    ELSE
        LET job == db.jobs[j]
            rest == Max(0, job.material_g
                           - (job.progress * job.material_g) \div 100)
            uses == /\ success /\ job.spool_id # NoSpool
                    /\ Truthy(job.material_g) /\ rest > 0
                    /\ job.spool_id \in DOMAIN db.spools
        IN  Fail(IF uses THEN complete_job(db, j, success).db ELSE db,
                 "internal_error")

FaultStart ==
    \E j \in 1..env.max_jobs, at \in FaultPoints :
        /\ Commit("start", j, start_job_raising(DB, j, at))
        /\ UNCHANGED <<next_job, consumed>>

FaultProgress ==
    \E j \in 1..env.max_jobs, x \in env.progress, at \in FaultPoints :
        /\ CommitArg("progress", j, <<x>>,
                     update_job_progress_raising(DB, j, x, at))
        /\ UNCHANGED <<next_job, consumed>>

FaultComplete ==
    \E j \in 1..env.max_jobs, success \in BOOLEAN, at \in FaultPoints :
        /\ CommitArg("complete", j, SuccessArg(success),
                     complete_job_raising(DB, j, success, at))
        /\ UNCHANGED <<next_job, consumed>>

FaultNext ==
    \/ Next
    \/ FaultStart
    \/ FaultProgress
    \/ FaultComplete

FaultEnv ==
    [max_jobs |-> SingleJob, max_alerts |-> MaxAlerts,
     max_events |-> MaxEvents,
     totals |-> SpoolTotals,
     estimates |-> EstimateInputs,
     duration |-> CompleteSeconds,
     materials |-> {40}, progress |-> {50}, grams |-> {20},
     frames |-> {<<80, 90, 90, 0>>}, elapsed |-> {45},
     results |-> {"start", "progress", "complete"}, history |-> FALSE,
     retries |-> FALSE]

InitFault == Start(FaultEnv)

SpecFault == InitFault /\ [][FaultNext]_vars

\* SpecRace: two sessions run start_job at the same time.  Every query of a
\* session is one step and reads what is committed at that moment (READ
\* COMMITTED, the PostgreSQL default; the code takes no row lock); the
\* session's writes become visible together at its commit.
SessionDone(w, ok, e) ==
    txn' = [txn EXCEPT ![w].pc = "done", ![w].ok = ok, ![w].err = e]

SessionAt(w, pc) == txn' = [txn EXCEPT ![w].pc = pc]

RaceFrame == UNCHANGED <<next_job, autoflush, env, last, consumed>>

\* self._get_job(job_id) and the status check
RaceBegin(w) ==
    /\ txn[w].pc = "idle"
    /\ \E j \in 1..env.max_jobs :
        IF j \notin DOMAIN jobs
        THEN txn' = [txn EXCEPT ![w] = [pc |-> "done", job |-> j,
                                        ok |-> FALSE, err |-> "job_not_found",
                                        existing |-> FALSE]]
        ELSE IF NotQueued(jobs[j])
        THEN txn' = [txn EXCEPT ![w] = [pc |-> "done", job |-> j,
                                        ok |-> FALSE, err |-> "not_queued",
                                        existing |-> FALSE]]
        ELSE txn' = [txn EXCEPT ![w] = [pc |-> "printer", job |-> j,
                                        ok |-> FALSE, err |-> "",
                                        existing |-> FALSE]]
    /\ UNCHANGED <<printers, spools, jobs, alerts, failure_events>>
    /\ RaceFrame

\* the Printer query and the occupied check
RaceReadPrinter(w) ==
    /\ txn[w].pc = "printer"
    /\ LET job == jobs[txn[w].job]
       IN  IF job.printer_id \notin DOMAIN printers
           THEN SessionDone(w, FALSE, "printer_not_found")
           ELSE IF PrinterOccupied(printers, job.printer_id)
           THEN SessionDone(w, FALSE, "printer_occupied")
           ELSE SessionAt(w, IF job.spool_id # NoSpool THEN "spool"
                             ELSE "write")
    /\ UNCHANGED <<printers, spools, jobs, alerts, failure_events>>
    /\ RaceFrame

\* the Spool query, the material check and the query of ensure_alert
RaceReadSpool(w) ==
    /\ txn[w].pc = "spool"
    /\ LET job == jobs[txn[w].job]
           s == job.spool_id
       IN  IF ~SpoolUsable(spools, s)
           THEN SessionDone(w, FALSE, "spool_inactive") /\ UNCHANGED alerts
           ELSE IF Insufficient(spools, s, job.material_g)
           THEN /\ txn' = [txn EXCEPT
                              ![w].pc = "alert",
                              ![w].existing =
                                  HasUnresolved(alerts, s,
                                                "insufficient_material")]
                /\ UNCHANGED alerts
           ELSE SessionAt(w, "in_use") /\ UNCHANGED alerts
    /\ UNCHANGED <<printers, spools, jobs, failure_events>>
    /\ RaceFrame

\* ensure_alert after its query: nothing when the query found an unresolved
\* alert, otherwise the insert; then the commit and the refusal
RaceAlert(w) ==
    /\ txn[w].pc = "alert"
    /\ LET s == jobs[txn[w].job].spool_id
       IN  alerts' = IF txn[w].existing THEN alerts
                     ELSE Append(alerts,
                                 NewAlert(s, "insufficient_material",
                                          "has_requires"))
    /\ Len(alerts') <= env.max_alerts
    /\ SessionDone(w, FALSE, "insufficient_material")
    /\ UNCHANGED <<printers, spools, jobs, failure_events>>
    /\ RaceFrame

\* the in_use query
RaceScan(w) ==
    /\ txn[w].pc = "in_use"
    /\ IF SpoolInUse(jobs, jobs[txn[w].job].spool_id)
       THEN SessionDone(w, FALSE, "spool_in_use")
       ELSE SessionAt(w, "write")
    /\ UNCHANGED <<printers, spools, jobs, alerts, failure_events>>
    /\ RaceFrame

\* the writes and self.db.commit()
RaceCommit(w) ==
    /\ txn[w].pc = "write"
    /\ LET db == CommitStart(DB, txn[w].job)
       IN  /\ printers' = db.printers
           /\ jobs' = db.jobs
           /\ alerts' = db.alerts
    /\ SessionDone(w, TRUE, "")
    /\ UNCHANGED <<spools, failure_events>>
    /\ RaceFrame

RaceNext ==
    \/ CreateJob
    \/ \E w \in Sessions : RaceBegin(w)
    \/ \E w \in Sessions : RaceReadPrinter(w)
    \/ \E w \in Sessions : RaceReadSpool(w)
    \/ \E w \in Sessions : RaceScan(w)
    \/ \E w \in Sessions : RaceCommit(w)

RaceEnv ==
    [max_jobs |-> MaxJobs, max_alerts |-> MaxAlerts,
     max_events |-> MaxEvents,
     totals |-> SpoolTotals,
     estimates |-> EstimateInputs,
     duration |-> CompleteSeconds,
     materials |-> MaterialInputs, progress |-> {}, grams |-> {},
     frames |-> {}, elapsed |-> {}, results |-> {}, history |-> FALSE,
     retries |-> FALSE]

InitRace == Start(RaceEnv)

SpecRace == InitRace /\ [][RaceNext]_vars

\* SpecAlertRace: the same sessions with jobs that declare more than the
\* spool holds, so that start_job reaches ensure_alert
AlertRaceNext ==
    \/ RaceNext
    \/ \E w \in Sessions : RaceAlert(w)

AlertRaceMaterials == {40, 60}

AlertRaceEnv ==
    [max_jobs |-> MaxJobs, max_alerts |-> LedgerAlerts,
     max_events |-> MaxEvents,
     totals |-> SpoolTotals,
     estimates |-> EstimateInputs,
     duration |-> CompleteSeconds,
     materials |-> AlertRaceMaterials, progress |-> {}, grams |-> {},
     frames |-> {}, elapsed |-> {}, results |-> {}, history |-> FALSE,
     retries |-> FALSE]

InitAlertRace == Start(AlertRaceEnv)

SpecAlertRace == InitAlertRace /\ [][AlertRaceNext]_vars

\* SpecTick: two update_job_progress calls in two sessions, each split at
\* its queries.  The call reads the job, then inside update_spool_usage
\* reads the spool row, subtracts in Python and commits, then re-checks,
\* stores the progress and commits again; no query takes a row lock.
TickSession(pc, j, x, job, row) ==
    [pc |-> pc, job |-> j, ok |-> pc = "done", err |-> "",
     x |-> x, prev |-> job.progress, printing |-> job.status = "printing",
     row |-> row]

\* self._get_job(job_id), previous_progress, new_progress and delta
TickBegin(w) ==
    /\ txn[w].pc = "idle"
    /\ \E j \in DOMAIN jobs, x \in env.progress :
           LET job == jobs[j]
               uses == /\ Clamp(x) - job.progress > 0
                       /\ job.spool_id # NoSpool /\ Truthy(job.material_g)
           IN  txn' = [txn EXCEPT ![w] =
                          TickSession(IF uses THEN "spool" ELSE "store",
                                      j, x, job, <<>>)]
    /\ UNCHANGED <<printers, spools, jobs, alerts, failure_events>>
    /\ RaceFrame

\* update_spool_usage, the Spool query
TickReadSpool(w) ==
    /\ txn[w].pc = "spool"
    /\ LET s == jobs[txn[w].job].spool_id
       IN  IF s \in DOMAIN spools
           THEN txn' = [txn EXCEPT ![w].pc = "usage", ![w].row = spools[s]]
           ELSE SessionAt(w, "store")
    /\ UNCHANGED <<printers, spools, jobs, alerts, failure_events>>
    /\ RaceFrame

\* the UPDATE the session flushes for its spool: the unit of work sets the
\* columns whose value differs from the one the session loaded and leaves the
\* others as the table has them
FlushSpool(cur, row, new) ==
    [cur EXCEPT !.remaining = IF new.remaining # row.remaining
                              THEN new.remaining ELSE @,
                !.usage = IF new.usage # row.usage THEN new.usage ELSE @,
                !.is_low = IF new.is_low # row.is_low THEN new.is_low ELSE @]

\* update_spool_usage from the row the session read, and its commit
TickUsage(w) ==
    /\ txn[w].pc = "usage"
    /\ LET job == jobs[txn[w].job]
           s == job.spool_id
           g == (job.material_g * (Clamp(txn[w].x) - txn[w].prev)) \div 100
           mine == [DB EXCEPT !.spools[s] = txn[w].row]
           db == update_spool_usage(mine, jobs, s, g).db
       IN  /\ spools' = [spools EXCEPT ![s] =
                            FlushSpool(spools[s], txn[w].row, db.spools[s])]
           /\ alerts' = db.alerts
           /\ Len(alerts') <= env.max_alerts
    /\ SessionAt(w, "recheck")
    /\ UNCHANGED <<printers, jobs, failure_events>>
    /\ RaceFrame

\* the re-check of update_job_progress on the spool as it is now
TickRecheck(w) ==
    /\ txn[w].pc = "recheck"
    /\ LET job == jobs[txn[w].job]
           s == job.spool_id
       IN  /\ alerts' =
                  IF spools[s].remaining
                         < remaining_needed(job.material_g, Clamp(txn[w].x))
                  THEN ensure_alert(alerts, s, "insufficient_material",
                                    "may_not_complete")
                  ELSE alerts
           /\ Len(alerts') <= env.max_alerts
    /\ SessionAt(w, "store")
    /\ UNCHANGED <<printers, spools, jobs, failure_events>>
    /\ RaceFrame

\* job.progress_percentage = new_progress and self.db.commit()
TickStore(w) ==
    /\ txn[w].pc = "store"
    /\ jobs' = [jobs EXCEPT ![txn[w].job].progress = Clamp(txn[w].x)]
    /\ txn' = [txn EXCEPT ![w].pc = "done", ![w].ok = TRUE]
    /\ UNCHANGED <<printers, spools, alerts, failure_events>>
    /\ RaceFrame

TickNext ==
    \/ CreateJob
    \/ StartJob
    \/ \E w \in Sessions : TickBegin(w)
    \/ \E w \in Sessions : TickReadSpool(w)
    \/ \E w \in Sessions : TickUsage(w)
    \/ \E w \in Sessions : TickRecheck(w)
    \/ \E w \in Sessions : TickStore(w)

TickEnv ==
    [max_jobs |-> SingleJob, max_alerts |-> LedgerAlerts,
     max_events |-> MaxEvents,
     totals |-> SpoolTotals,
     estimates |-> EstimateInputs,
     duration |-> CompleteSeconds,
     materials |-> MaterialInputs, progress |-> ProgressInputs,
     grams |-> {}, frames |-> {}, elapsed |-> {}, results |-> {},
     history |-> FALSE, retries |-> FALSE]

InitTick == Start(TickEnv)

SpecTick == InitTick /\ [][TickNext]_vars

\* ------------------------------------------------------------------ claims
\* the error taxonomy: the class of each reason a request gives for failing
ErrorKind(e) ==
    CASE e \in {"job_not_found", "printer_not_found", "spool_not_found",
                "alert_not_found"} -> "NotFound"
      [] e = "not_queued" -> "InvalidState"
      [] e \in {"printer_occupied", "printer_unavailable", "spool_inactive",
                "insufficient_material", "spool_in_use"}
            -> "ResourceUnavailable"
      [] OTHER -> "None"

PrintingOnPrinter(p) ==
    {j \in DOMAIN jobs : jobs[j].printer_id = p /\ jobs[j].status = "printing"}

PrintingOnSpool(s) ==
    {j \in DOMAIN jobs : jobs[j].spool_id = s /\ jobs[j].status = "printing"}

\* C1: no printer is referenced by more than one job whose status is
\* printing, in any state any sequence of requests reaches.
C1_PrinterExclusive ==
    \A p \in Printers : Cardinality(PrintingOnPrinter(p)) <= 1

C2_SpoolInvariant ==
    \A s \in SpoolIds : Cardinality(PrintingOnSpool(s)) <= 1

SpoolBusyFor(j) ==
    /\ jobs[j].status = "queued"
    /\ jobs[j].spool_id # NoSpool
    /\ PrintingOnSpool(jobs[j].spool_id) \ {j} # {}

C2_StartStep ==
    \A j \in DOMAIN jobs :
        (SpoolBusyFor(j) /\ last'.op = "start" /\ last'.job = j)
        => /\ ~last'.ok
           /\ ErrorKind(last'.err) = "ResourceUnavailable"
           /\ j \in DOMAIN jobs'
           /\ jobs'[j].status = "queued"

\* C2: in every reachable state at most one printing job references a given
\* spool, and every start_job of a queued job whose spool another printing
\* job uses fails with a ResourceUnavailable reason and leaves the job queued.
C2_SpoolExclusive == []C2_SpoolInvariant /\ [][C2_StartStep]_vars

\* C2 witness: start_job has just been refused because the spool is in use
\* by the other, printing, job.
C2_Witness ==
    /\ last.op = "start"
    /\ last.err = "spool_in_use"
    /\ last.job \in DOMAIN jobs
    /\ SpoolBusyFor(last.job)

RacedStart(w) ==
    /\ txn[w].pc = "done"
    /\ txn[w].err \notin {"job_not_found", "not_queued"}

\* C3: when two start_job calls for two different queued jobs on the same
\* idle printer have both returned, exactly one of them succeeded and the
\* other failed with a ResourceUnavailable reason, its job still queued.
C3_ExactlyOneStartWins ==
    \A w1 \in Sessions, w2 \in Sessions :
        ( /\ w1 # w2
          /\ RacedStart(w1) /\ RacedStart(w2)
          /\ txn[w1].job # txn[w2].job
          /\ jobs[txn[w1].job].printer_id = jobs[txn[w2].job].printer_id )
        => /\ txn[w1].ok # txn[w2].ok
           /\ \A w \in {w1, w2} :
                  ~txn[w].ok =>
                      /\ ErrorKind(txn[w].err) = "ResourceUnavailable"
                      /\ jobs[txn[w].job].status = "queued"

\* C4: a printer's status is printing if and only if exactly one printing
\* job references it, in every reachable state.
C4_PrinterStatusMatchesJobs ==
    \A p \in Printers :
        printers[p].status = "printing"
            <=> Cardinality(PrintingOnPrinter(p)) = 1

\* C5: once a job's status is completed or failed, no request changes it.
C5_TerminalStatusKept ==
    [][\A j \in DOMAIN jobs :
           jobs[j].status \in {"completed", "failed"}
           => j \in DOMAIN jobs' /\ jobs'[j].status = jobs[j].status]_vars

\* C6: complete_job on a job that is not printing fails with InvalidState and
\* leaves the job, its printer's status and its spool's remaining weight as
\* they were.
C6_CompleteNeedsPrinting ==
    [][\A j \in DOMAIN jobs :
           (jobs[j].status # "printing"
                /\ last'.op = "complete" /\ last'.job = j)
           => /\ ~last'.ok
              /\ ErrorKind(last'.err) = "InvalidState"
              /\ jobs' = jobs
              /\ \A p \in Printers : printers'[p].status = printers[p].status
              /\ \A s \in SpoolIds :
                     spools'[s].remaining = spools[s].remaining]_vars

\* C7: a frame submitted for a job that is not printing changes no job
\* status, no printer status and no spool active flag, and records no
\* FailureEvent.
C7_ForceFailNeedsPrinting ==
    [][\A j \in DOMAIN jobs :
           (jobs[j].status # "printing"
                /\ last'.op = "detect" /\ last'.job = j)
           => /\ \A k \in DOMAIN jobs :
                     k \in DOMAIN jobs' /\ jobs'[k].status = jobs[k].status
              /\ \A p \in Printers : printers'[p].status = printers[p].status
              /\ \A s \in SpoolIds :
                     spools'[s].is_active = spools[s].is_active
              /\ failure_events' = failure_events]_vars

\* C8: every spool's remaining weight is between 0 and its total weight
\* after every update_spool_usage call, whatever grams the caller passes.
C8_RemainingInRange ==
    \A s \in SpoolIds :
        0 <= spools[s].remaining /\ spools[s].remaining <= spools[s].total

Unresolved(s, t) ==
    {i \in 1..Len(alerts) :
        /\ alerts[i].spool_id = s
        /\ alerts[i].alert_type = t
        /\ ~alerts[i].is_resolved}

\* C9: for every spool and each of the two alert types there is at most one
\* unresolved alert, in every reachable state.
C9_OneUnresolvedAlert ==
    \A s \in SpoolIds, t \in {"low_inventory", "insufficient_material"} :
        Cardinality(Unresolved(s, t)) <= 1

\* C10: when a job with a spool and declared material M, started with
\* nothing reported yet, is completed with success, the grams asked of the
\* ledger for it by update_job_progress and complete_job add up to M.
C10_CompletionConsumesDeclared ==
    [][\A j \in DOMAIN jobs :
           ( /\ jobs[j].status = "printing"
             /\ consumed[j].clean
             /\ jobs[j].spool_id # NoSpool
             /\ Truthy(jobs[j].material_g)
             /\ j \in DOMAIN jobs'
             /\ jobs'[j].status = "completed" )
           => consumed'[j].grams = jobs[j].material_g]_vars

\* C11: start_job on a job whose status is not queued fails with an
\* InvalidState reason and changes no job, printer, spool or alert.
C11_StartNeedsQueued ==
    [][\A j \in DOMAIN jobs :
           (jobs[j].status # "queued" /\ last'.op = "start" /\ last'.job = j)
           => /\ ~last'.ok
              /\ ErrorKind(last'.err) = "InvalidState"
              /\ jobs' = jobs
              /\ printers' = printers
              /\ spools' = spools
              /\ alerts' = alerts]_vars

\* C11 witness: start_job has just been refused for a job that is printing,
\* completed or failed.
C11_Witness ==
    /\ last.op = "start"
    /\ last.err = "not_queued"
    /\ last.job \in DOMAIN jobs
    /\ jobs[last.job].status \in {"printing", "completed", "failed"}

\* C12: start_job succeeds only when the job's printer is idle and active;
\* with the printer in error or maintenance, or inactive, it fails with a
\* ResourceUnavailable reason and the job stays queued.
C12_StartNeedsAvailablePrinter ==
    [][\A j \in DOMAIN jobs :
           ( /\ jobs[j].status = "queued"
             /\ jobs[j].printer_id \in DOMAIN printers
             /\ last'.op = "start" /\ last'.job = j )
           => LET pr == printers[jobs[j].printer_id]
              IN  /\ last'.ok => (pr.status = "idle" /\ pr.is_active)
                  /\ (pr.status \in {"error", "maintenance"} \/ ~pr.is_active)
                     => /\ ~last'.ok
                        /\ ErrorKind(last'.err) = "ResourceUnavailable"
                        /\ jobs'[j].status = "queued"]_vars

\* the spool of job j is there, active, and holds the job's declared material
SpoolCovers(j) ==
    LET s == jobs[j].spool_id
    IN  /\ s \in DOMAIN spools
        /\ spools[s].is_active
        /\ jobs[j].material_g # NoneVal
               => spools[s].remaining >= jobs[j].material_g

\* C13: a start_job that moves a job with a spool to printing finds the
\* spool active and holding at least the job's declared material; when the
\* spool is not, start_job fails with a ResourceUnavailable reason, the job
\* stays queued and the printer's status is unchanged.
C13_StartNeedsUsableSpool ==
    [][\A j \in DOMAIN jobs :
           ( /\ jobs[j].status = "queued"
             /\ jobs[j].spool_id # NoSpool
             /\ last'.op = "start" /\ last'.job = j )
           => /\ jobs'[j].status = "printing" => SpoolCovers(j)
              /\ ~SpoolCovers(j)
                 => /\ ~last'.ok
                    /\ ErrorKind(last'.err) = "ResourceUnavailable"
                    /\ jobs'[j].status = "queued"
                    /\ \A p \in Printers :
                           printers'[p].status = printers[p].status]_vars

\* C13 witness: start_job has just been refused because the spool is
\* inactive, the job still queued.
C13_Witness ==
    /\ last.op = "start"
    /\ last.err = "spool_inactive"
    /\ last.job \in DOMAIN jobs
    /\ jobs[last.job].status = "queued"
    /\ ~spools[jobs[last.job].spool_id].is_active

\* C13 witness, the other case: the spool is active but holds less than the
\* job declares.
C13_WitnessShort ==
    /\ last.op = "start"
    /\ last.err = "insufficient_material"
    /\ last.job \in DOMAIN jobs
    /\ jobs[last.job].status = "queued"
    /\ spools[jobs[last.job].spool_id].remaining < jobs[last.job].material_g

\* C14: after update_job_progress the stored progress is the input brought
\* into [0, 100]: 0 for a negative input, 100 for one above 100, the input
\* itself otherwise.
C14_ProgressClamped ==
    [][\A j \in DOMAIN jobs :
           (last'.op = "progress" /\ last'.job = j)
           => LET x == last'.arg[1]
              IN  /\ last'.ok
                  /\ j \in DOMAIN jobs'
                  /\ jobs'[j].progress >= 0 /\ jobs'[j].progress <= 100
                  /\ jobs'[j].progress =
                         IF x < 0 THEN 0 ELSE IF x > 100 THEN 100 ELSE x]_vars

\* C14 witness: update_job_progress was given 150 and the job holds 100.
C14_Witness ==
    /\ last.op = "progress"
    /\ last.arg = <<150>>
    /\ last.job \in DOMAIN jobs
    /\ jobs[last.job].progress = 100

\* C14 witness, the other side: a negative input, stored as 0 over a job
\* that had progressed.
C14_WitnessNegative ==
    /\ last.op = "progress"
    /\ last.arg = <<-10>>
    /\ last.job \in DOMAIN jobs
    /\ jobs[last.job].progress = 0

\* the highest of a frame's scores; 0 for an image that gives none
MaxScore(frame) ==
    IF frame = <<>> THEN 0
    ELSE CHOOSE m \in {frame[i] : i \in DOMAIN frame} :
             \A i \in DOMAIN frame : frame[i] <= m

\* C15: a positive detection on a printing job leaves the job failed, its
\* printer in error and its spool inactive, and adds exactly one
\* FailureEvent for the job, whose confidence is the frame's highest score
\* and whose category is one that scored it.
C15_ForceFailEffects ==
    [][\A j \in DOMAIN jobs :
           ( /\ jobs[j].status = "printing"
             /\ last'.op = "detect" /\ last'.job = j
             /\ MaxScore(last'.arg) > FailureThreshold )
           => LET frame == last'.arg
                  s == jobs[j].spool_id
                  n == Len(failure_events)
              IN  /\ last'.ok
                  /\ jobs'[j].status = "failed"
                  /\ printers'[jobs[j].printer_id].status = "error"
                  /\ s # NoSpool => ~spools'[s].is_active
                  /\ Len(failure_events') = n + 1
                  /\ SubSeq(failure_events', 1, n) = failure_events
                  /\ failure_events'[n + 1].job_id = j
                  /\ failure_events'[n + 1].confidence_score = MaxScore(frame)
                  /\ \E i \in DOMAIN frame :
                         /\ frame[i] = MaxScore(frame)
                         /\ failure_events'[n + 1].failure_type
                                = FailureTypes[i]]_vars

\* C15 witness: the frame <<80, 90, 90, 0>> has just failed a job that was
\* printing on a spool; the event carries 90.
C15_Witness ==
    /\ last.op = "detect"
    /\ last.ok
    /\ last.arg = <<80, 90, 90, 0>>
    /\ jobs[last.job].status = "failed"
    /\ jobs[last.job].started
    /\ jobs[last.job].spool_id # NoSpool
    /\ ~spools[jobs[last.job].spool_id].is_active
    /\ printers[jobs[last.job].printer_id].status = "error"
    /\ Len(failure_events) = 1
    /\ failure_events[1].confidence_score = 90

\* C16: delete_job succeeds exactly on a queued job, and the job is then not
\* found by get_job; on a printing, completed or failed job it fails with an
\* InvalidState reason and the job's row is unchanged.
C16_DeleteOnlyQueued ==
    [][\A j \in DOMAIN jobs :
           (last'.op = "delete" /\ last'.job = j)
           => /\ last'.ok <=> jobs[j].status = "queued"
              /\ last'.ok
                 => LET found == get_job([jobs |-> jobs'], j)
                    IN  ~found.ok /\ ErrorKind(found.err) = "NotFound"
              /\ ~last'.ok
                 => /\ ErrorKind(last'.err) = "InvalidState"
                    /\ get_job([jobs |-> jobs'], j).ok
                    /\ jobs'[j] = jobs[j]]_vars

\* C16 witness: a queued job has just been deleted and is not found.
C16_Witness ==
    /\ last.op = "delete"
    /\ last.ok
    /\ ~get_job(DB, last.job).ok

\* C16 witness, the refusal: delete_job has just failed on a job that is
\* printing, completed or failed, and the job is still stored.
C16_WitnessRefused ==
    /\ last.op = "delete"
    /\ last.err = "not_queued"
    /\ get_job(DB, last.job).ok
    /\ jobs[last.job].status \in {"printing", "completed", "failed"}

\* job j is the scenario's job at the given progress, the spool holding rem
ScenarioAt(j, progress, rem) ==
    /\ jobs[j].status = "printing"
    /\ jobs[j].material_g = 900
    /\ jobs[j].progress = progress
    /\ jobs[j].spool_id \in DOMAIN spools
    /\ spools[jobs[j].spool_id].total = 1000
    /\ spools[jobs[j].spool_id].remaining = rem

\* C17: a 900 g job on a 1000 g spool.  Start leaves it printing; progress
\* 0 to 50 leaves 550 g and adds no alert; progress 50 to 100 leaves 100 g
\* and adds one low_inventory alert; complete with success then consumes
\* nothing and leaves the job completed and the printer idle.
C17_ScenarioNineHundred ==
    [][\A j \in DOMAIN jobs :
           LET s == jobs[j].spool_id
               p == jobs[j].printer_id
           IN
           /\ ( /\ jobs[j].status = "queued" /\ jobs[j].material_g = 900
                /\ s \in DOMAIN spools /\ spools[s].is_active
                /\ spools[s].remaining = 1000
                /\ printers[p].status = "idle"
                /\ last'.op = "start" /\ last'.job = j )
              => last'.ok /\ jobs'[j].status = "printing"
           /\ ( /\ ScenarioAt(j, 0, 1000)
                /\ last'.op = "progress" /\ last'.job = j
                /\ last'.arg = <<50>> )
              => /\ spools'[s].remaining = 550
                 /\ alerts' = alerts
           /\ ( /\ ScenarioAt(j, 50, 550)
                /\ last'.op = "progress" /\ last'.job = j
                /\ last'.arg = <<100>> )
              => /\ spools'[s].remaining = 100
                 /\ Len(alerts') = Len(alerts) + 1
                 /\ alerts'[Len(alerts')].alert_type = "low_inventory"
                 /\ ~alerts'[Len(alerts')].is_resolved
           /\ ( /\ ScenarioAt(j, 100, 100)
                /\ last'.op = "complete" /\ last'.job = j
                /\ jobs'[j].status # "failed" )
              => /\ last'.ok
                 /\ spools'[s].remaining = 100
                 /\ jobs'[j].status = "completed"
                 /\ printers'[p].status = "idle"]_vars

\* the unresolved alerts of a type for a spool among the rows al
UnresolvedIn(al, s, t) ==
    {i \in 1..Len(al) :
        /\ al[i].spool_id = s
        /\ al[i].alert_type = t
        /\ ~al[i].is_resolved}

\* job j is queued on an active spool that holds less than it declares
ShortOfMaterial(j) ==
    /\ jobs[j].status = "queued"
    /\ jobs[j].spool_id \in DOMAIN spools
    /\ spools[jobs[j].spool_id].is_active
    /\ jobs[j].material_g # NoneVal
    /\ spools[jobs[j].spool_id].remaining < jobs[j].material_g

\* C18: every start_job of a queued job that declares more material than
\* its active spool holds fails with a ResourceUnavailable reason, leaves
\* the job queued, and leaves exactly one unresolved insufficient_material
\* alert for the spool, however often it is retried.
C18_ShortStartAlertsOnce ==
    [][\A j \in DOMAIN jobs :
           (ShortOfMaterial(j) /\ last'.op = "start" /\ last'.job = j)
           => /\ ~last'.ok
              /\ ErrorKind(last'.err) = "ResourceUnavailable"
              /\ jobs'[j].status = "queued"
              /\ Cardinality(UnresolvedIn(alerts', jobs[j].spool_id,
                                          "insufficient_material")) = 1
              /\ HasUnresolved(alerts, jobs[j].spool_id,
                               "insufficient_material")
                 => alerts' = alerts]_vars

\* C18, amended: the same, for a job whose printer's status is not printing
\* (start_job looks at the printer first, and a job refused because the
\* printer is occupied gets no alert).
C18_ShortStartAlertsOnce_PrinterFree ==
    [][\A j \in DOMAIN jobs :
           ( /\ ShortOfMaterial(j)
             /\ ~PrinterOccupied(printers, jobs[j].printer_id)
             /\ last'.op = "start" /\ last'.job = j )
           => /\ ~last'.ok
              /\ ErrorKind(last'.err) = "ResourceUnavailable"
              /\ jobs'[j].status = "queued"
              /\ Cardinality(UnresolvedIn(alerts', jobs[j].spool_id,
                                          "insufficient_material")) = 1
              /\ HasUnresolved(alerts, jobs[j].spool_id,
                               "insufficient_material")
                 => alerts' = alerts]_vars

\* C18 witness: start_job has just been refused for want of material with
\* the alert of an earlier refusal resolved and a new one, the only
\* unresolved one, in place.
C18_Witness ==
    /\ last.op = "start"
    /\ last.err = "insufficient_material"
    /\ last.job \in DOMAIN jobs
    /\ ShortOfMaterial(last.job)
    /\ Len(alerts) = 2
    /\ alerts[1].alert_type = "insufficient_material"
    /\ alerts[1].is_resolved
    /\ UnresolvedIn(alerts, jobs[last.job].spool_id,
                    "insufficient_material") = {2}

\* C19: a frame submitted for a job is flagged as a failure if and only if
\* its highest score is strictly above the threshold; when it is not, the
\* call returns a negative result and no job, printer, spool, alert or
\* FailureEvent changes.
C19_FlagIffAboveThreshold ==
    [][\A j \in DOMAIN jobs :
           (last'.op = "detect" /\ last'.job = j)
           => /\ last'.ok <=> MaxScore(last'.arg) > FailureThreshold
              /\ ~last'.ok
                 => /\ jobs' = jobs
                    /\ printers' = printers
                    /\ spools' = spools
                    /\ alerts' = alerts
                    /\ failure_events' = failure_events]_vars

\* C19 witness: a frame scoring exactly the threshold has just been
\* submitted for a printing job and was not flagged.
C19_Witness ==
    /\ last.op = "detect"
    /\ ~last.ok
    /\ last.arg = <<70, 0, 0, 0>>
    /\ last.job \in DOMAIN jobs
    /\ jobs[last.job].status = "printing"
    /\ failure_events = <<>>

\* C20: a request that aborts on an internal failure leaves every job,
\* printer and spool row as it was before the request.
C20_AbortRollsBack ==
    [][last'.err = "internal_error"
       => /\ jobs' = jobs
          /\ printers' = printers
          /\ spools' = spools]_vars

C22_RemainingNeverGrows ==
    [][\A s \in SpoolIds :
           spools'[s].remaining <= spools[s].remaining]_vars

\* C23: resolve_alert on an existing alert leaves it resolved with
\* resolved_at set, and an ensure_alert for the same spool and type then
\* inserts a new unresolved alert.
C23_ResolveStampsAlert ==
    [][\A i \in 1..Len(alerts) :
           (last'.op = "resolve" /\ last'.arg = <<i>>)
           => /\ last'.ok
              /\ Len(alerts') = Len(alerts)
              /\ alerts'[i].is_resolved
              /\ alerts'[i].resolved_at # NoneVal
              /\ ~HasUnresolved(alerts', alerts[i].spool_id,
                                alerts[i].alert_type)
                 => LET again == ensure_alert(alerts', alerts[i].spool_id,
                                              alerts[i].alert_type,
                                              alerts[i].message)
                    IN  /\ Len(again) = Len(alerts') + 1
                        /\ ~again[Len(again)].is_resolved]_vars

\* C24: an alert goes from unresolved to resolved only in a resolve_alert
\* request for that alert; no request removes an alert or changes another
\* field of one.
C24_OnlyResolveResolves ==
    [][/\ Len(alerts') >= Len(alerts)
       /\ \A i \in 1..Len(alerts) :
              /\ alerts'[i].is_resolved # alerts[i].is_resolved
                 => /\ alerts'[i].is_resolved
                    /\ last'.op = "resolve"
                    /\ last'.arg = <<i>>
              /\ alerts[i].is_resolved => alerts'[i].is_resolved
              /\ [alerts'[i] EXCEPT !.is_resolved = FALSE]
                     = [alerts[i] EXCEPT !.is_resolved = FALSE]]_vars

\* an unresolved alert has survived the reactivation of its spool
C24_Witness ==
    /\ Len(alerts) > 0
    /\ ~alerts[1].is_resolved
    /\ last.op = "spool_active"
    /\ last.ok
    /\ spools[alerts[1].spool_id].is_active

\* the spool of job j is there and locked (is_active false)
OnLockedSpool(j) ==
    LET s == jobs[j].spool_id
    IN  s \in DOMAIN spools /\ ~spools[s].is_active

\* a forced failure locks the spool of its job, and while a spool is locked
\* no job on it moves to printing
LockHolds ==
    /\ Len(failure_events') > Len(failure_events)
       => LET ev == failure_events'[Len(failure_events')]
              s == jobs[ev.job_id].spool_id
          IN  s \in DOMAIN spools => ~spools'[s].is_active
    /\ \A j \in DOMAIN jobs \cap DOMAIN jobs' :
           (OnLockedSpool(j) /\ jobs[j].status # "printing")
           => jobs'[j].status # "printing"

\* C25, as stated: a forced failure locks the spool of its job; while a
\* spool is locked no job on it moves to printing, and start_job on every
\* job on it fails with a ResourceUnavailable reason.
C25_LockedSpoolBlocksStart ==
    /\ [](\A j \in DOMAIN jobs :
             OnLockedSpool(j)
             => LET r == start_job(DB, j)
                IN  ~r.ok /\ ErrorKind(r.err) = "ResourceUnavailable")
    /\ [][LockHolds]_vars

\* C25, amended: the same, the ResourceUnavailable reason being that of
\* start_job on a queued job of the locked spool (on a job that is no longer
\* queued, the failed one among them, start_job fails with InvalidState).
C25_LockedSpoolBlocksQueuedStart ==
    /\ [](\A j \in DOMAIN jobs :
             (OnLockedSpool(j) /\ jobs[j].status = "queued")
             => LET r == start_job(DB, j)
                IN  /\ ~r.ok
                    /\ ErrorKind(r.err) = "ResourceUnavailable"
                    /\ r.db = DB)
    /\ [][LockHolds]_vars

\* C25 witness: a forced failure is on record, the spool is locked, and
\* start_job on the other, queued job has just been refused for it.
C25_Witness ==
    /\ failure_events # <<>>
    /\ last.op = "start"
    /\ last.err = "spool_inactive"
    /\ last.job \in DOMAIN jobs
    /\ jobs[last.job].status = "queued"
    /\ OnLockedSpool(last.job)
    /\ jobs[failure_events[1].job_id].status = "failed"
    /\ failure_events[1].job_id # last.job

\* the requests of the job lifecycle and of frame detection
JobRequests == {"create", "start", "progress", "complete", "detect", "delete"}

\* a forced failure is on record for a job of printer p
FailedOn(p) ==
    \E i \in 1..Len(failure_events) :
        /\ failure_events[i].job_id \in DOMAIN jobs
        /\ jobs[failure_events[i].job_id].printer_id = p

\* C26: a printer put in error by a forced failure stays in error through
\* every job request (create, start, progress, complete, delete, detect).
C26_ErrorUntilOperator ==
    [][\A p \in Printers :
           ( /\ printers[p].status = "error"
             /\ FailedOn(p)
             /\ last'.op \in JobRequests )
           => printers'[p].status = "error"]_vars

\* how many low_inventory alerts, resolved or not, spool s has in al
LowAlerts(al, s) ==
    Cardinality({i \in 1..Len(al) :
                    al[i].spool_id = s /\ al[i].alert_type = "low_inventory"})

\* C27: every request leaves a spool's low flag equal to
\* (remaining / total <= threshold) on the weight it leaves, and adds one
\* low_inventory alert when it moves the flag from false to true, none
\* otherwise (none on a spool whose flag is already true).
C27_LowAlertOnCrossing ==
    [][\A s \in SpoolIds :
           /\ spools'[s].is_low
                  <=> (spools'[s].remaining * 100
                          <= AlertThresholdPct * spools'[s].total)
           /\ LowAlerts(alerts', s) - LowAlerts(alerts, s)
                  = IF ~spools[s].is_low /\ spools'[s].is_low THEN 1 ELSE 0]_vars

\* C27 witness: the spool crossed the threshold and got its alert, an
\* operator resolved it, and a later consumption on the still low spool
\* added nothing.
C27_Witness ==
    /\ last.op = "usage"
    /\ last.ok
    /\ \E s \in SpoolIds :
           /\ spools[s].is_low
           /\ LowAlerts(alerts, s) = 1
           /\ \A i \in 1..Len(alerts) :
                  (alerts[i].spool_id = s
                       /\ alerts[i].alert_type = "low_inventory")
                  => alerts[i].is_resolved

\* the alert types and the wordings the callers of ensure_alert use
AlertTypes == {"low_inventory", "insufficient_material"}
AlertMessages == {"has_requires", "may_not_complete", "running_low"}

\* C28: on every alerts table the requests leave, one ensure_alert call for
\* a spool and type leaves what two or three calls leave, whatever their
\* messages; when an unresolved alert of the pair exists the call changes
\* nothing, and neither does the start_job that makes it.
C28_EnsureAlertIdempotent ==
    /\ \A s \in SpoolIds, t \in AlertTypes, m1 \in AlertMessages,
          m2 \in AlertMessages :
           LET once  == ensure_alert(alerts, s, t, m1)
               twice == ensure_alert(once, s, t, m2)
           IN  /\ twice = once
               /\ ensure_alert(twice, s, t, m1) = once
               /\ Cardinality(UnresolvedIn(once, s, t)) >= 1
               /\ HasUnresolved(alerts, s, t) => once = alerts
    /\ \A j \in DOMAIN jobs :
           ( /\ ShortOfMaterial(j)
             /\ ~PrinterOccupied(printers, jobs[j].printer_id)
             /\ HasUnresolved(alerts, jobs[j].spool_id,
                              "insufficient_material") )
           => start_job(DB, j).db.alerts = alerts

\* C28 witness: start_job has just called ensure_alert for a short job while
\* the unresolved alert of update_job_progress was there; the alert still
\* has the wording of update_job_progress and no second one was added.
C28_Witness ==
    /\ last.op = "start"
    /\ last.err = "insufficient_material"
    /\ last.job \in DOMAIN jobs
    /\ ShortOfMaterial(last.job)
    /\ \E i \in 1..Len(alerts) :
           /\ UnresolvedIn(alerts, jobs[last.job].spool_id,
                           "insufficient_material") = {i}
           /\ alerts[i].message = "may_not_complete"
    /\ \A i \in 1..Len(alerts) : alerts[i].message # "has_requires"

\* C29: an update_job_progress whose clamped value is at or below the
\* stored progress succeeds, leaves every spool (remaining, usage, low
\* flag) and every alert as they were, asks nothing of the ledger, and
\* stores the clamped value.
C29_NoGainNoConsumption ==
    [][\A j \in DOMAIN jobs :
           LET x == last'.arg[1]
               new == IF x < 0 THEN 0 ELSE IF x > 100 THEN 100 ELSE x
           IN  ( /\ last'.op = "progress" /\ last'.job = j
                 /\ new <= jobs[j].progress )
               => /\ last'.ok
                  /\ spools' = spools
                  /\ alerts' = alerts
                  /\ consumed' = consumed
                  /\ jobs'[j].progress = new]_vars

\* C29 witness: a printing job that had reported 50 percent, and consumed
\* 20 g for it, has just reported -10: the stored progress is 0 and the
\* 20 g are still gone from the spool.
C29_Witness ==
    /\ last.op = "progress"
    /\ last.arg = <<-10>>
    /\ last.job \in DOMAIN jobs
    /\ jobs[last.job].status = "printing"
    /\ jobs[last.job].progress = 0
    /\ consumed[last.job].grams = 20
    /\ spools[jobs[last.job].spool_id].remaining = 20

\* how many insufficient_material alerts, resolved or not, spool s has in al
ShortAlerts(al, s) ==
    Cardinality({i \in 1..Len(al) :
                    /\ al[i].spool_id = s
                    /\ al[i].alert_type = "insufficient_material"})

\* C30: an update_job_progress that raises the progress of a printing job
\* adds an insufficient_material alert only if the weight it leaves on the
\* spool is less than material_g * (1 - new progress / 100).
C30_AlertOnlyWhenShort ==
    [][\A j \in DOMAIN jobs :
           LET s == jobs[j].spool_id
               m == jobs[j].material_g
               x == last'.arg[1]
               new == IF x < 0 THEN 0 ELSE IF x > 100 THEN 100 ELSE x
           IN  ( /\ last'.op = "progress" /\ last'.job = j
                 /\ jobs[j].status = "printing"
                 /\ s \in DOMAIN spools /\ m # NoneVal
                 /\ new > jobs[j].progress
                 /\ ShortAlerts(alerts', s) > ShortAlerts(alerts, s) )
               => spools'[s].remaining * 100 < m * (100 - new)]_vars

\* C31: complete_job with success false on a printing job succeeds, leaves
\* the job failed and its printer idle, and touches no spool, no alert and
\* no failure event.
C31_FailedCompletionConsumesNothing ==
    [][\A j \in DOMAIN jobs :
           ( /\ jobs[j].status = "printing"
             /\ last'.op = "complete" /\ last'.job = j
             /\ last'.arg = <<0>> )
           => /\ last'.ok
              /\ jobs'[j].status = "failed"
              /\ printers'[jobs[j].printer_id].status = "idle"
              /\ spools' = spools
              /\ alerts' = alerts
              /\ failure_events' = failure_events]_vars

\* C31 witness: a job that had consumed half of its 40 g has just been
\* completed with success false: failed, printer idle, the other 20 g
\* still on the active spool, no failure event.
C31_Witness ==
    /\ last.op = "complete"
    /\ last.arg = <<0>>
    /\ last.ok
    /\ last.job \in DOMAIN jobs
    /\ jobs[last.job].status = "failed"
    /\ jobs[last.job].progress = 50
    /\ jobs[last.job].started
    /\ jobs[last.job].spool_id \in DOMAIN spools
    /\ spools[jobs[last.job].spool_id].remaining = 20
    /\ spools[jobs[last.job].spool_id].is_active
    /\ printers[jobs[last.job].printer_id].status = "idle"
    /\ failure_events = <<>>

\* C32: update_job_progress on a job that is not printing (queued,
\* completed or failed) leaves the remaining weight of every spool as it
\* was.
C32_ConsumesOnlyWhilePrinting ==
    [][\A j \in DOMAIN jobs :
           ( /\ jobs[j].status # "printing"
             /\ last'.op = "progress" /\ last'.job = j )
           => \A s \in SpoolIds :
                  spools'[s].remaining = spools[s].remaining]_vars

\* the failure events recorded for job j
EventsOf(ev, j) == {i \in 1..Len(ev) : ev[i].job_id = j}

\* C33: every job has at most one failure event, and a step that records
\* one for a job finds the job printing and leaves it failed.
C33_OneEventPerFailedPrint ==
    /\ [](\A j \in JobIds : Cardinality(EventsOf(failure_events, j)) <= 1)
    /\ [][\A j \in JobIds :
             EventsOf(failure_events', j) # EventsOf(failure_events, j)
             => /\ j \in DOMAIN jobs
                /\ jobs[j].status = "printing"
                /\ jobs'[j].status = "failed"]_vars

\* session w has finished an update_job_progress that raised the progress
\* of a printing job with a spool and declared material
RaisedProgress(w) ==
    /\ txn[w].pc = "done"
    /\ txn[w].job \in DOMAIN jobs
    /\ txn[w].printing
    /\ txn[w].prev < Clamp(txn[w].x)
    /\ jobs[txn[w].job].spool_id \in DOMAIN spools
    /\ jobs[txn[w].job].material_g # NoneVal

\* C34: when two update_job_progress calls that both read progress p of
\* the same printing job and both report q > p have finished, the spool
\* has lost material_g * (q - p) / 100 once, not twice.
C34_ConcurrentTicksConsumeOnce ==
    \A w1 \in Sessions, w2 \in Sessions :
        ( /\ w1 # w2
          /\ RaisedProgress(w1) /\ RaisedProgress(w2)
          /\ txn[w1].job = txn[w2].job
          /\ txn[w1].prev = txn[w2].prev
          /\ Clamp(txn[w1].x) = Clamp(txn[w2].x) )
        => LET job == jobs[txn[w1].job]
               s == job.spool_id
           IN  spools[s].remaining
                   = spools[s].total
                       - (job.material_g * txn[w1].prev) \div 100
                       - (job.material_g
                             * (Clamp(txn[w1].x) - txn[w1].prev)) \div 100

\* session w has finished a start_job that was refused for want of material
RefusedShort(w) ==
    /\ txn[w].pc = "done"
    /\ txn[w].err = "insufficient_material"

\* C35: when two start_job calls on jobs short of material on the same
\* spool, run in two sessions, have both finished, the spool has at most
\* one unresolved insufficient_material alert.
C35_ConcurrentEnsureAlertOnce ==
    \A w1 \in Sessions, w2 \in Sessions :
        ( /\ w1 # w2
          /\ RefusedShort(w1) /\ RefusedShort(w2)
          /\ jobs[txn[w1].job].spool_id = jobs[txn[w2].job].spool_id )
        => Cardinality(UnresolvedIn(alerts, jobs[txn[w1].job].spool_id,
                                    "insufficient_material")) <= 1

\* the spool conditions of start_job hold for job j: no spool, or a spool
\* that is active, holds the declared material and has no printing job
SpoolReady(j) ==
    \/ jobs[j].spool_id = NoSpool
    \/ SpoolCovers(j) /\ PrintingOnSpool(jobs[j].spool_id) = {}

\* C36: a start_job refused for an occupied printer changes nothing, the
\* job still queued; complete_job on a printing job leaves its printer
\* idle; and start_job on a queued job whose printer is idle and whose
\* spool conditions hold succeeds, leaving job and printer printing.
C36_RefusedStartSucceedsLater ==
    [][\A j \in DOMAIN jobs :
           LET p == jobs[j].printer_id
           IN  /\ ( /\ last'.op = "start" /\ last'.job = j
                    /\ last'.err = "printer_occupied" )
                  => /\ jobs' = jobs /\ jobs[j].status = "queued"
                     /\ printers' = printers
                     /\ spools' = spools
               /\ ( /\ last'.op = "complete" /\ last'.job = j
                    /\ jobs[j].status = "printing" )
                  => printers'[p].status = "idle"
               /\ ( /\ last'.op = "start" /\ last'.job = j
                    /\ jobs[j].status = "queued"
                    /\ printers[p].status = "idle"
                    /\ SpoolReady(j) )
                  => /\ last'.ok
                     /\ jobs'[j].status = "printing"
                     /\ printers'[p].status = "printing"]_vars

\* C36 witness: a job whose start had met an occupied printer has just
\* been started, the job that held the printer being completed.
C36_Witness ==
    /\ last.op = "start"
    /\ last.ok
    /\ last.job \in DOMAIN jobs
    /\ consumed[last.job].refused
    /\ jobs[last.job].status = "printing"
    /\ \E k \in DOMAIN jobs :
           /\ k # last.job
           /\ jobs[k].printer_id = jobs[last.job].printer_id
           /\ jobs[k].status = "completed"
           /\ jobs[k].started

\* the grams asked of the ledger for job j are material_g * progress / 100
ConsumedMatchesProgress(c, js, j) ==
    c[j].grams * 100 = js[j].material_g * js[j].progress

\* C37: while a job prints, an update_job_progress that does not lower the
\* progress and leaves something on the spool keeps the material consumed
\* for the job at material_g * stored progress / 100, and takes from the
\* spool exactly what it adds to that total.
C37_ConsumedTracksProgress ==
    [][\A j \in DOMAIN jobs :
           LET s == jobs[j].spool_id
               x == last'.arg[1]
               new == IF x < 0 THEN 0 ELSE IF x > 100 THEN 100 ELSE x
           IN  ( /\ last'.op = "progress" /\ last'.job = j
                 /\ jobs[j].status = "printing"
                 /\ s \in DOMAIN spools
                 /\ jobs[j].material_g # NoneVal
                 /\ ConsumedMatchesProgress(consumed, jobs, j)
                 /\ new >= jobs[j].progress
                 /\ spools'[s].remaining > 0 )
               => /\ jobs'[j].progress = new
                  /\ ConsumedMatchesProgress(consumed', jobs', j)
                  /\ spools[s].remaining - spools'[s].remaining
                         = consumed'[j].grams - consumed[j].grams]_vars

\* C37 witness: a job started with nothing reported has printed to 100
\* percent: its 20 g were asked of the ledger and the spool still holds
\* the other 20 g.
C37_Witness ==
    /\ last.op = "progress"
    /\ last.arg = <<150>>
    /\ last.job \in DOMAIN jobs
    /\ jobs[last.job].status = "printing"
    /\ consumed[last.job].clean
    /\ jobs[last.job].progress = 100
    /\ jobs[last.job].material_g = 20
    /\ consumed[last.job].grams = 20
    /\ spools[jobs[last.job].spool_id].remaining = 20

\* usage_percentage and is_low_inventory as update_spool_usage derives them
\* from the weights; usage is kept in grams, usage_percentage * total_weight
DerivedAgree(sp) ==
    /\ sp.usage = sp.total - sp.remaining
    /\ sp.is_low <=> IsLow(sp.remaining, sp.total)

\* C38: in every reachable state each spool's usage_percentage equals
\* (total_weight - remaining_weight) / total_weight and its low-inventory
\* flag is set exactly when remaining_weight / total_weight is at most the
\* alert threshold.
C38_DerivedFieldsAgree ==
    \A s \in DOMAIN spools : DerivedAgree(spools[s])

\* the seconds the behaviour's detections find elapsed since start_time
ElapsedNow == CHOOSE el \in env.elapsed : TRUE

\* C39: a positive detection for a started job with a spool and declared
\* material M takes M * min(30, seconds since start) / (estimated minutes
\* * 60, 60 minutes when there is no estimate) from the spool through
\* update_spool_usage, which stops at 0; the deduction sees the job as it
\* was before the detection (a printing job that a deduction leaves short
\* gets its insufficient_material alert), and after it the job is failed
\* and the spool locked.
C39_WindowUsageBeforeFailure ==
    [][\A j \in DOMAIN jobs :
           LET job == jobs[j]
               s == job.spool_id
               M == job.material_g
               minutes == IF job.estimated_time_min = NoneVal
                          THEN 60 ELSE job.estimated_time_min
               amount == (M * Min(30, ElapsedNow)) \div (minutes * 60)
           IN  ( /\ last'.op = "detect" /\ last'.job = j /\ last'.ok
                 /\ job.started
                 /\ s \in DOMAIN spools
                 /\ M # NoneVal )
               => /\ spools'[s].remaining
                      = Max(0, spools[s].remaining - amount)
                  /\ jobs'[j].status = "failed"
                  /\ ~spools'[s].is_active
                  /\ ( /\ amount > 0
                       /\ job.status = "printing"
                       /\ spools'[s].remaining
                              < remaining_needed(M, job.progress) )
                     => HasUnresolved(alerts', s,
                                      "insufficient_material")]_vars

C39_Witness ==
    /\ last.op = "detect" /\ last.ok /\ last.job = 1
    /\ 1 \in DOMAIN jobs
    /\ jobs[1].started /\ jobs[1].status = "failed"
    /\ jobs[1].estimated_time_min = NoneVal
    /\ jobs[1].material_g = 240
    /\ ElapsedNow = 45
    /\ jobs[1].spool_id = 1
    /\ spools[1].remaining = 298
    /\ ~spools[1].is_active

\* C40: complete_job on a started job sets actual_time_min to the time
\* between start_time and end_time in minutes, rounded to the nearest whole
\* minute (90 seconds give 2), and sets the printer's status to idle.
C40_ActualTimeRounded ==
    [][\A j \in DOMAIN jobs :
           LET p == jobs[j].printer_id
           IN  ( /\ last'.op = "complete" /\ last'.job = j /\ last'.ok
                 /\ jobs[j].started )
               => /\ jobs'[j].actual_time_min
                      = (2 * env.duration + 60) \div 120
                  /\ p \in DOMAIN printers
                         => printers'[p].status = "idle"]_vars

====
